---- MODULE Spec2Model ----
(***************************************************************************)
(* react-native-paper: AnimatedFAB (show/hide and expand/collapse timing   *)
(* animations, interpolated styles, touch handling), Drawer.Item and       *)
(* Drawer.Section.                                                         *)
(*                                                                         *)
(* Fixed-point conventions                                                 *)
(*   visibility      : the Animated.Value in units of 1/VisOne             *)
(*   animFAB         : pixels (Math.ceil makes the measured widths whole)  *)
(*   interpolation   : inputs in tenths of a pixel (0.9 * distance and     *)
(*                     0.7 * distance are whole), outputs in hundredths    *)
(*                     (SCALE = 0.9 is 90, opacity 0.15 is 15)             *)
(***************************************************************************)
EXTENDS Integers, Sequences, FiniteSets, TLC

VARIABLES
    pc,           \* "constructed" (first render done, effects pending) | "mounted"
    visible,      \* prop visible, after its default
    extended,     \* prop extended, after its default
    animateFrom,  \* prop animateFrom as passed: "left" | "right" | Undefined
    iconMode,     \* prop iconMode as passed: "static" | "dynamic" | Undefined
    isV3,         \* theme.isV3
    scale,        \* theme.animation.scale
    isIOS,        \* Platform.OS === 'ios'
    textWidth,    \* useState textWidth
    textHeight,   \* useState textHeight
    visibility,   \* Animated.Value visibility
    visAnim,      \* the timing animation running on visibility, or NoAnim
    animFAB,      \* Animated.Value animFAB
    fabAnim,      \* the timing animation running on animFAB, or NoAnim
    disabled,     \* prop disabled as passed: "true" | "false" | Undefined
    hasOnPress,   \* whether the onPress prop was passed
    pressCount,   \* number of calls of onPress so far
    touched,      \* outcome of the last touch: "none" | "pressed" | "ignored"
    item,         \* Drawer.Item: its props and what it rendered
    section       \* Drawer.Section: its props and what it rendered

fabVars == <<pc, visible, extended, animateFrom, iconMode, isV3, scale, isIOS,
             textWidth, textHeight, visibility, visAnim, animFAB, fabAnim>>
touchVars == <<disabled, hasOnPress, pressCount, touched>>
vars == <<fabVars, touchVars, item, section>>

----------------------------------------------------------------------------
(* Bounds *)

VisOne == 4            \* fixed-point denominator of visibility
FrameMs == 100         \* time between two animation frames
MaxPress == 3          \* cap on the counted onPress calls
MaxChildren == 2       \* cap on the number of children of a Drawer.Section

Undefined == "undefined"
NoAnim == [to |-> 0, left |-> 0]

Booleans == {TRUE, FALSE}
\* an optional boolean prop as passed; JavaScript truthiness of it
OptionalBooleans == {"true", "false", Undefined}
Truthy(x) == x = "true"
Scales == {0, 1}                 \* animation scale: 0 is "reduce motion"
MeasuredWidths == {17, 30}       \* Math.ceil(lines[0].width) values
MeasuredHeights == {19}          \* Math.ceil(lines[0].height) values

----------------------------------------------------------------------------
(* AnimatedFAB: constants and derived values *)

SIZE == 56
SCALE == 90

\* variant: the default direction is "left"
AnimateFromDefaultLeft(p) == IF p = Undefined THEN "left" ELSE p
AnimateFromDefault(p) == IF p = Undefined THEN "right" ELSE p
IconModeDefault(p) == IF p = Undefined THEN "dynamic" ELSE p

IsAnimatedFromRight(af) == AnimateFromDefault(af) = "right"
IsIconStatic(im) == IconModeDefault(im) = "static"

isAnimatedFromRight == IsAnimatedFromRight(animateFrom)
isIconStatic == IsIconStatic(iconMode)

\* SIZE / (isV3 ? 3.5 : 2)
BorderRadius(v3) == IF v3 THEN (2 * SIZE) \div 7 ELSE SIZE \div 2
borderRadius == BorderRadius(isV3)

\* variant: the same sign for both directions
DistanceSameSign(af, tw, v3) == tw + BorderRadius(v3)
Distance(af, tw, v3) ==
    IF IsAnimatedFromRight(af) THEN (0 - tw) - BorderRadius(v3)
                               ELSE tw + BorderRadius(v3)
distance == Distance(animateFrom, textWidth, isV3)

extendedWidth == textWidth + SIZE + borderRadius

----------------------------------------------------------------------------
(* Animated.timing(value, {toValue, duration}).start() *)

CeilDiv(a, b) == (a + b - 1) \div b

\* Starting a timing animation on a value stops the one running on it; a
\* duration of 0 sets the value to toValue at once.
Timing(cur, to, duration) ==
    IF duration = 0
    THEN [v |-> to, a |-> NoAnim]
    ELSE [v |-> cur, a |-> [to |-> to, left |-> CeilDiv(duration, FrameMs)]]

\* One animation frame: the value moves linearly towards toValue and is set
\* to toValue exactly on the last frame.
Frame(cur, a) ==
    IF a.left = 1
    THEN [v |-> a.to, a |-> NoAnim]
    ELSE [v |-> cur + ((a.to - cur) \div a.left),
          a |-> [to |-> a.to, left |-> a.left - 1]]

\* variant: both branches animate to 1
VisibilityToValueAlwaysShown(v) == VisOne
VisibilityToValue(v) == IF v THEN VisOne ELSE 0
VisibilityDuration(v, s) == IF v THEN 200 * s ELSE 150 * s

\* variant: the negation of extended is dropped
ExpandToValueInverted(e, d) == IF e THEN 0 ELSE d
ExpandToValue(e, d) == IF ~e THEN 0 ELSE d
ExpandDuration(s) == 150 * s

\* dependency arrays of the two effects (the refs never change)
\* variant: the visibility effect has no dependency array
VisibilityDepsAlways(v, s) == TRUE
VisibilityDepsChanged(v, s) == v # visible \/ s # scale
ExpandDepsChanged(e, s, d) == s # scale \/ d # distance \/ e # extended

VisibilityEffect(v, s) ==
    LET t == Timing(visibility, VisibilityToValue(v), VisibilityDuration(v, s))
    IN  /\ visibility' = t.v
        /\ visAnim' = t.a

ExpandEffect(e, s, d) ==
    LET t == Timing(animFAB, ExpandToValue(e, d), ExpandDuration(s))
    IN  /\ animFAB' = t.v
        /\ fabAnim' = t.a

\* A render with new props, theme or state, followed by the effects whose
\* dependencies changed.
Render(v, e, af, v3, s, tw) ==
    /\ visible' = v
    /\ extended' = e
    /\ animateFrom' = af
    /\ isV3' = v3
    /\ scale' = s
    /\ textWidth' = tw
    /\ IF VisibilityDepsChanged(v, s)
       THEN VisibilityEffect(v, s)
       ELSE UNCHANGED <<visibility, visAnim>>
    /\ IF ExpandDepsChanged(e, s, Distance(af, tw, v3))
       THEN ExpandEffect(e, s, Distance(af, tw, v3))
       ELSE UNCHANGED <<animFAB, fabAnim>>

----------------------------------------------------------------------------
(* AnimatedFAB: actions *)

FabInit ==
    /\ pc = "constructed"
    /\ visible \in Booleans
    /\ extended \in Booleans
    /\ animateFrom \in {"left", "right", Undefined}
    /\ iconMode \in {"static", "dynamic", Undefined}
    /\ isV3 \in Booleans
    /\ scale \in Scales
    /\ isIOS \in Booleans
    /\ textWidth = 0
    /\ textHeight = 0
    /\ visibility = (IF visible THEN VisOne ELSE 0)
    /\ visAnim = NoAnim
    /\ animFAB = 0
    /\ fabAnim = NoAnim

TouchInit ==
    /\ disabled \in OptionalBooleans
    /\ hasOnPress \in Booleans
    /\ pressCount = 0
    /\ touched = "none"

\* the effects of the first render
Mount ==
    /\ pc = "constructed"
    /\ pc' = "mounted"
    /\ VisibilityEffect(visible, scale)
    /\ ExpandEffect(extended, scale, distance)
    /\ UNCHANGED <<visible, extended, animateFrom, iconMode, isV3, scale, isIOS,
                   textWidth, textHeight>>

SetVisible ==
    /\ pc = "mounted"
    /\ \E v \in Booleans :
        /\ v # visible
        /\ Render(v, extended, animateFrom, isV3, scale, textWidth)
    /\ UNCHANGED <<pc, iconMode, isIOS, textHeight>>

SetExtended ==
    /\ pc = "mounted"
    /\ \E e \in Booleans :
        /\ e # extended
        /\ Render(visible, e, animateFrom, isV3, scale, textWidth)
    /\ UNCHANGED <<pc, iconMode, isIOS, textHeight>>

SetAnimateFrom ==
    /\ pc = "mounted"
    /\ \E af \in {"left", "right", Undefined} :
        /\ af # animateFrom
        /\ Render(visible, extended, af, isV3, scale, textWidth)
    /\ UNCHANGED <<pc, iconMode, isIOS, textHeight>>

SetIconMode ==
    /\ pc = "mounted"
    /\ \E im \in {"static", "dynamic", Undefined} :
        /\ im # iconMode
        /\ iconMode' = im
    /\ Render(visible, extended, animateFrom, isV3, scale, textWidth)
    /\ UNCHANGED <<pc, isIOS, textHeight>>

SetTheme ==
    /\ pc = "mounted"
    /\ \E v3 \in Booleans, s \in Scales :
        /\ <<v3, s>> # <<isV3, scale>>
        /\ Render(visible, extended, animateFrom, v3, s, textWidth)
    /\ UNCHANGED <<pc, iconMode, isIOS, textHeight>>

\* onTextLayout of the label (iOS) or of the hidden placeholder text
onTextLayout ==
    /\ pc = "mounted"
    /\ \E currentWidth \in MeasuredWidths, currentHeight \in MeasuredHeights :
        IF currentWidth # textWidth \/ currentHeight # textHeight
        THEN /\ textHeight' = currentHeight
             /\ Render(visible, extended, animateFrom, isV3, scale,
                       IF isIOS THEN currentWidth - 12 ELSE currentWidth)
        ELSE UNCHANGED <<textHeight, visible, extended, animateFrom, isV3, scale,
                         textWidth, visibility, visAnim, animFAB, fabAnim>>
    /\ UNCHANGED <<pc, iconMode, isIOS>>

VisibilityFrame ==
    /\ visAnim # NoAnim
    /\ LET t == Frame(visibility, visAnim)
       IN  /\ visibility' = t.v
           /\ visAnim' = t.a
    /\ UNCHANGED <<pc, visible, extended, animateFrom, iconMode, isV3, scale,
                   isIOS, textWidth, textHeight, animFAB, fabAnim>>

AnimFABFrame ==
    /\ fabAnim # NoAnim
    /\ LET t == Frame(animFAB, fabAnim)
       IN  /\ animFAB' = t.v
           /\ fabAnim' = t.a
    /\ UNCHANGED <<pc, visible, extended, animateFrom, iconMode, isV3, scale,
                   isIOS, textWidth, textHeight, visibility, visAnim>>

----------------------------------------------------------------------------
(* AnimatedFAB: interpolated styles *)

Reverse(q) == [i \in 1..Len(q) |-> q[Len(q) + 1 - i]]

\* variant: the range is never reversed
propForDirectionNoReverse(right) == right
propForDirection(right) == IF isAnimatedFromRight THEN right ELSE Reverse(right)

SetMin(S) == CHOOSE x \in S : \A y \in S : x <= y

\* inputRange must be monotonically non-decreasing, else interpolate throws
ValidInputRange(r) == \A i \in 1..(Len(r) - 1) : r[i] <= r[i + 1]

\* index of the segment of inputRange used for input
FindRange(input, r) ==
    LET S == {i \in 1..(Len(r) - 2) : r[i + 1] >= input}
    IN  IF S = {} THEN Len(r) - 1 ELSE SetMin(S)

\* value.interpolate({inputRange, outputRange}) with the default linear easing
\* and extrapolation "extend"
interpolate(input, inputRange, outputRange) ==
    LET k == FindRange(input, inputRange)
        inputMin == inputRange[k]
        inputMax == inputRange[k + 1]
        outputMin == outputRange[k]
        outputMax == outputRange[k + 1]
    IN  IF ~ValidInputRange(inputRange) THEN [throws |-> TRUE, value |-> 0]
        ELSE IF outputMin = outputMax THEN [throws |-> FALSE, value |-> outputMin]
        ELSE IF inputMin = inputMax
             THEN [throws |-> FALSE,
                   value |-> IF input <= inputMin THEN outputMin ELSE outputMax]
        ELSE [throws |-> FALSE,
              value |-> outputMin +
                  (((outputMax - outputMin) * (input - inputMin))
                      \div (inputMax - inputMin))]

scaleY ==
    interpolate(10 * animFAB,
                propForDirection(<<10 * distance, 0>>),
                propForDirection(<<SCALE, 100>>))

extendedShadowOpacity ==
    interpolate(10 * animFAB,
                propForDirection(<<10 * distance, 9 * distance, 0>>),
                propForDirection(<<100, 15, 0>>))

sizeShadowOpacity ==
    interpolate(10 * animFAB,
                propForDirection(<<10 * distance, 9 * distance, 0>>),
                propForDirection(<<0, 85, 100>>))

labelOpacity ==
    interpolate(10 * animFAB,
                propForDirection(<<10 * distance, 7 * distance, 0>>),
                propForDirection(<<100, 0, 0>>))

labelTranslateX ==
    interpolate(10 * animFAB,
                propForDirection(<<10 * distance, 0>>),
                propForDirection(<<0, 100 * SIZE>>))

\* offset of the label from the side it is anchored to
labelOffset ==
    IF isIconStatic
    THEN (textWidth - SIZE) + (borderRadius \div (IF isV3 THEN 1 ELSE 2))
    ELSE borderRadius

----------------------------------------------------------------------------
(* AnimatedFAB: the touchable *)

\* variant: disabled is not handed to the touchable
TouchablePropsNoDisabled ==
    [onPress |-> hasOnPress,
     disabled |-> Undefined,
     accessibilityTraits |->
         IF Truthy(disabled) THEN <<"button", "disabled">> ELSE <<"button">>,
     accessibilityRole |-> "button",
     accessibilityState |-> [disabled |-> disabled]]

\* props the TouchableRipple receives
TouchableProps ==
    [onPress |-> hasOnPress,
     disabled |-> disabled,
     accessibilityTraits |->
         IF Truthy(disabled) THEN <<"button", "disabled">> ELSE <<"button">>,
     accessibilityRole |-> "button",
     accessibilityState |-> [disabled |-> disabled]]

\* a touch on the FAB: a disabled touchable, or one without onPress, ignores it
Touch ==
    /\ pc = "mounted"
    /\ pressCount < MaxPress
    /\ IF Truthy(TouchableProps.disabled) \/ ~TouchableProps.onPress
       THEN /\ touched' = "ignored"
            /\ UNCHANGED pressCount
       ELSE /\ touched' = "pressed"
            /\ pressCount' = pressCount + 1
    /\ UNCHANGED <<disabled, hasOnPress>>

SetDisabled ==
    /\ pc = "mounted"
    /\ \E d \in OptionalBooleans :
        /\ d # disabled
        /\ disabled' = d
    /\ touched' = "none"
    /\ UNCHANGED <<hasOnPress, pressCount>>

SetOnPress ==
    /\ pc = "mounted"
    /\ hasOnPress' = ~hasOnPress
    /\ touched' = "none"
    /\ UNCHANGED <<disabled, pressCount>>

----------------------------------------------------------------------------
(* color(value).alpha(a).rgb().string() of the "color" package *)

\* colour values a theme may hold
ThemeColors == {Undefined, "#6200ee", "#000000", "transparent"}

\* color(value): channels 0..255, alpha in hundredths; no value is black
ColorParse(c) ==
    IF c = "#6200ee" THEN [r |-> 98, g |-> 0, b |-> 238, alpha |-> 100]
    ELSE IF c = "transparent" THEN [r |-> 0, g |-> 0, b |-> 0, alpha |-> 0]
    ELSE [r |-> 0, g |-> 0, b |-> 0, alpha |-> 100]

ColorAlpha(c, a) == [c EXCEPT !.alpha = a]

AlphaString(a) ==
    IF a = 100 THEN "1"
    ELSE IF a < 10 THEN "0.0" \o ToString(a)
    ELSE "0." \o ToString(a)

\* .rgb().string(): "rgb(r, g, b)" when opaque, "rgba(r, g, b, a)" otherwise
ColorString(c) ==
    IF c.alpha = 100
    THEN "rgb(" \o ToString(c.r) \o ", " \o ToString(c.g) \o ", "
             \o ToString(c.b) \o ")"
    ELSE "rgba(" \o ToString(c.r) \o ", " \o ToString(c.g) \o ", "
             \o ToString(c.b) \o ", " \o AlphaString(c.alpha) \o ")"

\* theme.md(key): the colour the V3 theme holds for a token, kept symbolic
md(key) == "md(" \o key \o ")"

----------------------------------------------------------------------------
(* Drawer.Item *)

ItemProps ==
    [active : OptionalBooleans,
     icon : Booleans,
     right : Booleans,
     styleBackgroundColor : {Undefined, "#64ffda"},
     isV3 : Booleans,
     primary : ThemeColors,
     text : {Undefined, "#000000"}]

\* variant: an omitted active counts as active
ItemBackgroundColorUnlessFalse(p) ==
    IF p.active # "false"
    THEN IF p.isV3
         THEN md("md.sys.color.secondary-container")
         ELSE ColorString(ColorAlpha(ColorParse(p.primary), 12))
    ELSE "transparent"

ItemBackgroundColor(p) ==
    IF Truthy(p.active)
    THEN IF p.isV3
         THEN md("md.sys.color.secondary-container")
         ELSE ColorString(ColorAlpha(ColorParse(p.primary), 12))
    ELSE "transparent"

ItemContentColor(p) ==
    IF Truthy(p.active)
    THEN IF p.isV3
         THEN md("md.sys.color.on-secondary-container")
         ELSE p.primary
    ELSE IF p.isV3
         THEN md("md.sys.color.on-surface-variant")
         ELSE ColorString(ColorAlpha(ColorParse(p.text), 68))

ItemLabelMargin(p) == IF p.icon THEN (IF p.isV3 THEN 12 ELSE 32) ELSE 0

\* what DrawerItem hands to its TouchableRipple and its content
DrawerItem(p) ==
    [rendered |-> TRUE,
     props |-> p,
     backgroundColor |-> ItemBackgroundColor(p),
     contentColor |-> ItemContentColor(p),
     \* the style array, flattened: a later entry overrides an earlier one
     styleBackgroundColor |->
         IF p.styleBackgroundColor # Undefined
         THEN p.styleBackgroundColor
         ELSE ItemBackgroundColor(p),
     labelMargin |-> ItemLabelMargin(p),
     accessibilityTraits |->
         IF Truthy(p.active) THEN <<"button", "selected">> ELSE <<"button">>,
     accessibilityRole |-> "button",
     accessibilityState |-> [selected |-> p.active]]

ItemInit == [rendered |-> FALSE, props |-> CHOOSE p \in ItemProps : TRUE]

ItemMount ==
    /\ ~item.rendered
    /\ item' = DrawerItem(item.props)

ItemRender ==
    /\ item.rendered
    /\ \E p \in ItemProps :
        /\ p # item.props
        /\ item' = DrawerItem(p)

----------------------------------------------------------------------------
(* Drawer.Section *)

Titles == {Undefined, "", "Some title"}
ChildTypes == {"Drawer.Item", "Divider", "Text"}

Element(type, by, text, v3) ==
    [type |-> type, by |-> by, text |-> text, insets |-> v3, bold |-> v3]

\* children handed to the section by its parent
ChildrenOf(types) ==
    [i \in 1..Len(types) |-> Element(types[i], "children", "", FALSE)]

ChildLists == UNION {[1..n -> ChildTypes] : n \in 0..MaxChildren}

SectionProps ==
    [title : Titles,
     children : ChildLists,
     isV3 : Booleans,
     text : {Undefined, "#000000"}]

\* JavaScript truthiness of an optional string
TruthyString(t) == t # Undefined /\ t # ""

SectionTitleColor(p) ==
    IF p.isV3
    THEN md("md.sys.color.on-surface-variant")
    ELSE ColorString(ColorAlpha(ColorParse(p.text), 54))

\* variant: the header is rendered for every title that is not undefined
SectionTitleSlotDefined(p) ==
    IF p.title # Undefined
    THEN Element("TitleView", "section", p.title, p.isV3)
    ELSE Element("Falsy", "section", p.title, FALSE)

\* {title && (<View> {title && <Text>{title}</Text>} </View>)}: the header
\* when title is truthy, else the falsy title itself (undefined or '')
SectionTitleSlot(p) ==
    IF TruthyString(p.title)
    THEN Element("TitleView", "section", p.title, p.isV3)
    ELSE Element("Falsy", "section", p.title, FALSE)

SectionDivider(p) ==
    Element("Divider", "section", "", p.isV3)

\* the children of the section's outer View, in order
DrawerSection(p) ==
    [rendered |-> TRUE,
     props |-> p,
     titleColor |-> SectionTitleColor(p),
     elements |->
         <<SectionTitleSlot(p)>> \o ChildrenOf(p.children)
             \o <<SectionDivider(p)>>]

SectionInit ==
    [rendered |-> FALSE, props |-> CHOOSE p \in SectionProps : TRUE]

SectionMount ==
    /\ ~section.rendered
    /\ section' = DrawerSection(section.props)

SectionRender ==
    /\ section.rendered
    /\ \E p \in SectionProps :
        /\ p # section.props
        /\ section' = DrawerSection(p)

Init ==
    /\ FabInit
    /\ disabled = Undefined
    /\ hasOnPress = TRUE
    /\ pressCount = 0
    /\ touched = "none"
    /\ item = ItemInit
    /\ section = SectionInit

Next ==
    \/ (Mount /\ UNCHANGED <<touchVars, item, section>>)
    \/ (SetVisible /\ UNCHANGED <<touchVars, item, section>>)
    \/ (SetExtended /\ UNCHANGED <<touchVars, item, section>>)
    \/ (SetAnimateFrom /\ UNCHANGED <<touchVars, item, section>>)
    \/ (SetIconMode /\ UNCHANGED <<touchVars, item, section>>)
    \/ (SetTheme /\ UNCHANGED <<touchVars, item, section>>)
    \/ (onTextLayout /\ UNCHANGED <<touchVars, item, section>>)
    \/ (VisibilityFrame /\ UNCHANGED <<touchVars, item, section>>)
    \/ (AnimFABFrame /\ UNCHANGED <<touchVars, item, section>>)

Spec == Init /\ [][Next]_vars

\* The FAB mounted with any props, its mount animations, and touches.
InitTouch ==
    /\ FabInit
    /\ TouchInit
    /\ item = ItemInit
    /\ section = SectionInit

NextTouch ==
    \/ (Mount /\ UNCHANGED <<touchVars, item, section>>)
    \/ (VisibilityFrame /\ UNCHANGED <<touchVars, item, section>>)
    \/ (AnimFABFrame /\ UNCHANGED <<touchVars, item, section>>)
    \/ (Touch /\ UNCHANGED <<fabVars, item, section>>)
    \/ (SetDisabled /\ UNCHANGED <<fabVars, item, section>>)
    \/ (SetOnPress /\ UNCHANGED <<fabVars, item, section>>)

SpecTouch == InitTouch /\ [][NextTouch]_vars

\* Drawer.Item rendered with any props.
InitItem ==
    /\ FabInit
    /\ visible /\ ~extended /\ animateFrom = Undefined /\ iconMode = Undefined
    /\ isV3 /\ scale = 1 /\ ~isIOS
    /\ disabled = Undefined
    /\ hasOnPress = TRUE
    /\ pressCount = 0
    /\ touched = "none"
    /\ item \in {[rendered |-> FALSE, props |-> p] : p \in ItemProps}
    /\ section = SectionInit

NextItem ==
    \/ (ItemMount /\ UNCHANGED <<fabVars, touchVars, section>>)
    \/ (ItemRender /\ UNCHANGED <<fabVars, touchVars, section>>)

SpecItem == InitItem /\ [][NextItem]_vars

\* Drawer.Section rendered with any props.
InitSection ==
    /\ FabInit
    /\ visible /\ ~extended /\ animateFrom = Undefined /\ iconMode = Undefined
    /\ isV3 /\ scale = 1 /\ ~isIOS
    /\ disabled = Undefined
    /\ hasOnPress = TRUE
    /\ pressCount = 0
    /\ touched = "none"
    /\ item = ItemInit
    /\ section \in {[rendered |-> FALSE, props |-> p] : p \in SectionProps}

NextSection ==
    \/ (SectionMount /\ UNCHANGED <<fabVars, touchVars, item>>)
    \/ (SectionRender /\ UNCHANGED <<fabVars, touchVars, item>>)

SpecSection == InitSection /\ [][NextSection]_vars

----------------------------------------------------------------------------
(* Properties *)

\* C1: visibility starts at 1 if visible is true on mount and 0 otherwise;
\* whatever changes of visible arrived, also mid-animation, the animation
\* running on visibility heads for the value of the current visible, and once
\* no animation is running visibility is 1 if visible and 0 if not.
C1_VisibilitySettles ==
    LET target == IF visible THEN VisOne ELSE 0
    IN  /\ pc = "constructed" => visibility = target
        /\ (pc = "mounted" /\ visAnim = NoAnim) => visibility = target
        /\ visAnim # NoAnim => visAnim.to = target

\* the FAB was hidden by an animation that has completed
C1_Witness ==
    /\ pc = "mounted"
    /\ scale = 1
    /\ ~visible
    /\ visAnim = NoAnim
    /\ visibility = 0

\* C2: whatever changes of extended, animateFrom and the measured text width
\* arrived, also mid-animation, the animation running on animFAB heads for
\* distance if extended and 0 if not, and once no animation is running animFAB
\* has that value.
C2_AnimFABSettles ==
    LET target == IF extended THEN distance ELSE 0
    IN  pc = "mounted" =>
            /\ fabAnim = NoAnim => animFAB = target
            /\ fabAnim # NoAnim => fabAnim.to = target

\* the FAB is extended to the left over a measured label, animation completed
C2_Witness ==
    /\ pc = "mounted"
    /\ scale = 1
    /\ extended
    /\ animateFrom = "left"
    /\ textWidth > 0
    /\ fabAnim = NoAnim
    /\ animFAB = textWidth + borderRadius

\* C3: while the disabled prop is true the touchable that carries onPress
\* receives disabled = true, and no step calls onPress.
C3_DisabledNeverPresses ==
    [][Truthy(disabled) =>
          /\ Truthy(TouchableProps.disabled)
          /\ pressCount' = pressCount]_vars

\* a disabled FAB that has an onPress was touched
C3_Witness ==
    /\ Truthy(disabled)
    /\ hasOnPress
    /\ touched = "ignored"

\* C4: distance is -(textWidth + borderRadius) from the right and
\* +(textWidth + borderRadius) from the left, borderRadius being 16 under a V3
\* theme and 28 otherwise; the two directions give negated targets.
C4_DistanceDirection ==
    LET radius == IF isV3 THEN 16 ELSE 28
    IN  /\ borderRadius = radius
        /\ animateFrom = "right" => distance = 0 - (textWidth + radius)
        /\ animateFrom = "left" => distance = textWidth + radius
        /\ Distance("left", textWidth, isV3)
               = 0 - Distance("right", textWidth, isV3)

\* animating from the left under a V3 theme with a measured label
C4_Witness ==
    /\ pc = "mounted"
    /\ animateFrom = "left"
    /\ isV3
    /\ textWidth > 0
    /\ extended
    /\ animFAB = distance

\* C5: with iconMode omitted the icon is not static and the label is placed as
\* for "dynamic"; with animateFrom omitted the FAB animates from the right.
C5_PropDefaults ==
    /\ iconMode = Undefined =>
           /\ ~isIconStatic
           /\ labelOffset = borderRadius
    /\ animateFrom = Undefined =>
           /\ isAnimatedFromRight
           /\ distance = Distance("right", textWidth, isV3)
           /\ propForDirection(<<distance, 0>>) = <<distance, 0>>

\* both props omitted, the FAB extended over a measured label
C5_Witness ==
    /\ pc = "mounted"
    /\ iconMode = Undefined
    /\ animateFrom = Undefined
    /\ extended
    /\ textWidth > 0
    /\ fabAnim = NoAnim

C7_SectionLayout ==
    section.rendered =>
        LET p == section.props
            els == section.elements
            n == Len(p.children)
        IN  /\ Len(els) = n + 2
            /\ (els[1].type = "TitleView") <=> (p.title # Undefined /\ p.title # "")
            /\ \A i \in 2..Len(els) : els[i].type # "TitleView"
            /\ \A i \in 1..n :
                   /\ els[i + 1].by = "children"
                   /\ els[i + 1].type = p.children[i]
            /\ els[n + 2].type = "Divider"
            /\ {i \in 1..Len(els) : els[i].by = "section" /\ els[i].type = "Divider"}
                   = {n + 2}
            /\ els[n + 2].insets = p.isV3
            /\ els[n + 2].bold = p.isV3

\* a section with an empty title and two children, one of them a Divider
C7_Witness ==
    /\ section.rendered
    /\ section.props.title = ""
    /\ Len(section.props.children) = 2
    /\ section.props.children[1] = "Divider"
    /\ section.props.isV3

\* C8: for both directions the interpolations are defined and, at animFAB = 0,
\* scaleY is 1, the label opacity 0, the label translateX SIZE, the shadow of
\* extended width has opacity 0 and the shadow of width SIZE opacity 1; at
\* animFAB = distance they are SCALE, 1, 0, 1 and 0.
C8_InterpolationEndpoints ==
    /\ ~scaleY.throws
    /\ ~labelOpacity.throws
    /\ ~labelTranslateX.throws
    /\ ~extendedShadowOpacity.throws
    /\ ~sizeShadowOpacity.throws
    /\ animFAB = 0 =>
           /\ scaleY.value = 100
           /\ labelOpacity.value = 0
           /\ labelTranslateX.value = 100 * SIZE
           /\ extendedShadowOpacity.value = 0
           /\ sizeShadowOpacity.value = 100
    /\ animFAB = distance =>
           /\ scaleY.value = SCALE
           /\ labelOpacity.value = 100
           /\ labelTranslateX.value = 0
           /\ extendedShadowOpacity.value = 100
           /\ sizeShadowOpacity.value = 0

\* fully extended to the left over a measured label
C8_Witness ==
    /\ pc = "mounted"
    /\ animateFrom = "left"
    /\ extended
    /\ textWidth > 0
    /\ fabAnim = NoAnim
    /\ animFAB = distance
    /\ scaleY.value = SCALE

\* C9: a step that changes visible leaves animFAB and its animation alone and
\* starts an animation on visibility; a step that changes extended,
\* animateFrom or the text width leaves visibility and its animation alone and,
\* when extended or distance changed, starts an animation on animFAB.
C9_IndependentAnimations ==
    [][/\ visible' # visible =>
              /\ animFAB' = animFAB
              /\ fabAnim' = fabAnim
              /\ scale # 0 => visAnim' # NoAnim
       /\ (extended' # extended \/ animateFrom' # animateFrom
               \/ textWidth' # textWidth) =>
              /\ visibility' = visibility
              /\ visAnim' = visAnim
              /\ (scale # 0 /\ (extended' # extended \/ distance' # distance))
                     => fabAnim' # NoAnim]_vars

\* visible changed while the expand animation was half way: the show/hide
\* animation is at its start from an intermediate value, the expand animation
\* on its last frame at an intermediate value
C9_Witness ==
    /\ pc = "mounted"
    /\ visAnim # NoAnim
    /\ visAnim.left = CeilDiv(VisibilityDuration(visible, scale), FrameMs)
    /\ visibility # 0
    /\ visibility # VisOne
    /\ fabAnim # NoAnim
    /\ fabAnim.left = 1
    /\ animFAB # 0
    /\ animFAB # distance

====
